---- MODULE Spec2Model ----
(***************************************************************************)
(* Inference Cost Attribution Engine: the cost-event value, the            *)
(* append-only hashed ledger and the tiered pricing calculator.            *)
(*                                                                         *)
(* Numbers.  The program computes with Python floats.  Here every number   *)
(* is an integer on a grid; rounding error of the floating-point           *)
(* operations is outside the model.  The calculator's residual tolerance   *)
(* (1e-9) is one grid unit of quantity, so that residuals below, at and    *)
(* above the tolerance all occur.                                          *)
(*                                                                         *)
(* Optional[T] values are sequences: None is <<>>, a present value x is    *)
(* <<x>>.                                                                  *)
(***************************************************************************)
EXTENDS Integers, Sequences, FiniteSets, TLC

None == <<>>
Some(x) == <<x>>

\* ------------------------------------------------------------------ bounds
\* longest ledger of the main specification
MaxLedgerLen == 3
\* longest ledger of the specifications that keep a second ledger or a
\* recorded hash beside it
MaxAuditLen == 2

\* most tiers of a pricing model
MaxTiers == 2
\* largest quantity priced
MaxQuantity == 4

\* ------------------------------------------------------------ input domains
LedgerIds == {1, 2}
ExecutionIds == {1, 2}
UnitCosts == {1, 2}
Quantities == {3}
TotalCosts == {3, 4, 5, 6}
\* datetime values: utc is the instant, off the UTC offset of the
\* representation; two representations of instant 1 are included.
Timestamps ==
  {[utc |-> 0, off |-> 0], [utc |-> 1, off |-> 0], [utc |-> 1, off |-> 1],
   [utc |-> 2, off |-> 0]}

\* PricingTier values: [min_quantity, max_quantity), max_quantity optional;
\* tiers whose max_quantity is not above min_quantity are not excluded by
\* the code and are included.
PricingTiers ==
  [min_quantity : {0, 1, 2},
   max_quantity : {None, Some(1), Some(2), Some(3)},
   unit_cost : {1, 2}]
FixedFees == {None, Some(3)}
PricingModels ==
  [tiers : UNION {[1..n -> PricingTiers] : n \in 0..MaxTiers},
   fixed_fee : FixedFees]
PricedQuantities == (-1)..MaxQuantity

\* The arguments of a CostEvent(...) construction.
CostEventArgs(ts, ex, uc, q, tc) ==
  [event_id |-> 7, timestamp |-> ts, execution_id |-> ex,
   component |-> "model", action |-> "invoke",
   unit_cost |-> uc, quantity |-> q, total_cost |-> tc,
   currency |-> "USD", cost_source |-> "openai",
   pricing_version |-> "model:v1", base_unit |-> "token",
   metadata |-> None]

\* ---------------------------------------------------------------- CostEvent
\* mutant of __post_init__: compares within a tolerance of one unit
CostEvent_post_init_tolerant(self) ==
  IF self.total_cost - self.unit_cost * self.quantity \notin {-1, 0, 1}
  THEN Some("ValidationError")
  ELSE None

\* __post_init__: the name of the error raised, or None.
CostEvent_post_init(self) ==
  IF self.total_cost # self.unit_cost * self.quantity
  THEN Some("ValidationError")
  ELSE None

\* ------------------------------------------------------------- PricingModel
\* float('inf'): above every quantity and tier bound of the model
Inf == 1000000
\* the residual tolerance 1e-9, taken as one unit of the quantity grid
EPSILON == 1

Min(a, b) == IF a < b THEN a ELSE b
Max(a, b) == IF a > b THEN a ELSE b

Raise(kind) == [raised |-> Some(kind), cost |-> None]
Return(cost) == [raised |-> None, cost |-> Some(cost)]

\* mutant of sorted_tiers: the tiers are walked in the order given
sorted_tiers_as_given(tiers) == tiers

\* sorted(self.tiers, key=lambda t: t.min_quantity): a stable sort
RECURSIVE sorted_tiers(_)
sorted_tiers(tiers) ==
  IF tiers = <<>> THEN <<>>
  ELSE LET n == Len(tiers)
           t == tiers[n]
           front == sorted_tiers(SubSeq(tiers, 1, n - 1))
       IN SelectSeq(front, LAMBDA u : u.min_quantity <= t.min_quantity)
            \o <<t>>
            \o SelectSeq(front, LAMBDA u : u.min_quantity > t.min_quantity)

\* mutant of tier_step: the part in a tier is not capped at the tier's end
tier_step_no_cap(st, tier, quantity) ==
  LET tier_start == Max(tier.min_quantity, st.processed_up_to)
      quantity_in_tier == quantity - tier_start
  IN IF quantity_in_tier > 0
     THEN [total_cost |-> st.total_cost + quantity_in_tier * tier.unit_cost,
           processed_up_to |-> quantity,
           remaining_quantity |-> st.remaining_quantity - quantity_in_tier]
     ELSE st

\* the loop body once past its two break tests
tier_step(st, tier, quantity) ==
  LET tier_start == Max(tier.min_quantity, st.processed_up_to)
      tier_end == IF tier.max_quantity # None THEN tier.max_quantity[1] ELSE Inf
      quantity_in_tier == Min(quantity, tier_end) - tier_start
  IN IF quantity_in_tier > 0
     THEN [total_cost |-> st.total_cost + quantity_in_tier * tier.unit_cost,
           processed_up_to |-> Min(quantity, tier_end),
           remaining_quantity |-> st.remaining_quantity - quantity_in_tier]
     ELSE st

\* for tier in sorted_tiers: ... (with its two breaks)
RECURSIVE walk_tiers(_, _, _)
walk_tiers(tiers, quantity, st) ==
  IF tiers = <<>> THEN st
  ELSE IF st.remaining_quantity <= 0 THEN st
  ELSE IF Head(tiers).min_quantity > quantity THEN st
  ELSE walk_tiers(Tail(tiers), quantity, tier_step(st, Head(tiers), quantity))

\* mutant of check_remaining: the residual test is left out
check_remaining_skipped(st) ==
  Return(st.total_cost)

\* the test after the loop, and the return
check_remaining(st) ==
  IF st.remaining_quantity > EPSILON
  THEN Raise("UnsupportedQuantity")
  ELSE Return(st.total_cost)

\* the tiered part of calculate_cost, from the sort on
calculate_tiered(self, quantity) ==
  LET sorted == sorted_tiers(self.tiers)
      fee == IF self.fixed_fee # None /\ self.fixed_fee[1] # 0
             THEN self.fixed_fee[1] ELSE 0
  IN IF quantity < sorted[1].min_quantity
     THEN Raise("UnsupportedQuantity")
     ELSE check_remaining(
            walk_tiers(sorted, quantity,
                       [total_cost |-> fee, processed_up_to |-> 0,
                        remaining_quantity |-> quantity]))

\* mutant of calculate_cost: the empty tier list is tested first
calculate_cost_tiers_first(self, quantity) ==
  IF self.tiers = <<>> THEN Raise("NoPricingTiers")
  ELSE IF quantity < 0 THEN Raise("InvalidQuantity")
  ELSE calculate_tiered(self, quantity)

\* mutant of calculate_cost: a model without tiers charges its fixed fee
calculate_cost_flat_rate(self, quantity) ==
  IF quantity < 0 THEN Raise("InvalidQuantity")
  ELSE IF self.tiers = <<>>
  THEN Return(IF self.fixed_fee # None THEN self.fixed_fee[1] ELSE 0)
  ELSE calculate_tiered(self, quantity)

\* PricingModel.calculate_cost: the error raised or the cost returned
calculate_cost(self, quantity) ==
  IF quantity < 0 THEN Raise("InvalidQuantity")
  ELSE IF self.tiers = <<>> THEN Raise("NoPricingTiers")
  ELSE calculate_tiered(self, quantity)

\* -------------------------------------------------------------------- state
VARIABLES
  pricing_models, \* ReplayEngine.pricing_models: pricing_version -> PricingModel
  pricing_model,  \* the PricingModel whose calculate_cost is called
  ledgers,    \* ledger id -> [events, hashes]  (CostLedger._events, ._hashes)
  recorded,   \* a hash the caller kept from get_ledger_hash(): None or
              \* Some([ledger, hash, events at that time])
  lastOp      \* the last call and its outcome

vars == <<pricing_models, pricing_model, ledgers, recorded, lastOp>>

\* ------------------------------------------------------------------- ledger
\* CostLedger.__init__
CostLedger_init == [events |-> <<>>, hashes |-> <<>>]

\* str(uuid)
str_uuid(u) == <<"uuid", u>>

\* datetime.isoformat(): wall-clock time followed by the offset
isoformat(ts) == <<ts.utc + ts.off, "+", ts.off>>

\* datetime.__lt__: aware datetimes compare by instant
datetime_lt(a, b) == a.utc < b.utc

\* CostLedger._event_to_dict
event_to_dict(event) ==
  [event_id |-> str_uuid(event.event_id),
   timestamp |-> isoformat(event.timestamp),
   execution_id |-> str_uuid(event.execution_id),
   component |-> event.component,
   action |-> event.action,
   unit_cost |-> event.unit_cost,
   quantity |-> event.quantity,
   total_cost |-> event.total_cost,
   currency |-> event.currency,
   cost_source |-> event.cost_source,
   pricing_version |-> event.pricing_version,
   base_unit |-> event.base_unit,
   metadata |-> event.metadata]

\* json.dumps(event_data, sort_keys=True, default=str): the dicts in list
\* order, each written as its (key, value) pairs in sorted key order.
SortedKeys ==
  <<"action", "base_unit", "component", "cost_source", "currency",
    "event_id", "execution_id", "metadata", "pricing_version", "quantity",
    "timestamp", "total_cost", "unit_cost">>

json_dumps(event_data) ==
  [i \in 1..Len(event_data) |->
     [k \in 1..Len(SortedKeys) |-> <<SortedKeys[k], event_data[i][SortedKeys[k]]>>]]

\* hashlib.sha256(...).hexdigest(): an ideal (collision-free) digest
sha256(data_str) == <<"sha256", data_str>>

\* mutant of _update_hash: only the latest hash is kept
update_hash_keeps_latest(self) ==
  LET event_data == [i \in 1..Len(self.events) |-> event_to_dict(self.events[i])]
      data_str == json_dumps(event_data)
  IN [self EXCEPT !.hashes = <<sha256(data_str)>>]

\* mutant of _update_hash: digests the newest event only
update_hash_newest_only(self) ==
  LET data_str == json_dumps(<<event_to_dict(self.events[Len(self.events)])>>)
  IN [self EXCEPT !.hashes = Append(@, sha256(data_str))]

\* CostLedger._update_hash
update_hash(self) ==
  LET event_data == [i \in 1..Len(self.events) |-> event_to_dict(self.events[i])]
      data_str == json_dumps(event_data)
  IN [self EXCEPT !.hashes = Append(@, sha256(data_str))]

\* mutant of add_event: rejects an equal timestamp too
add_event_rejects_equal(self, event) ==
  IF Len(self.events) > 0
       /\ ~datetime_lt(self.events[Len(self.events)].timestamp, event.timestamp)
  THEN [ledger |-> self, raised |-> Some("OrderingViolation")]
  ELSE [ledger |-> update_hash([self EXCEPT !.events = Append(@, event)]),
        raised |-> None]

\* mutant of add_event: appends before it checks the order
add_event_appends_first(self, event) ==
  LET appended == [self EXCEPT !.events = Append(@, event)]
  IN IF Len(self.events) > 0
          /\ datetime_lt(event.timestamp, self.events[Len(self.events)].timestamp)
     THEN [ledger |-> appended, raised |-> Some("OrderingViolation")]
     ELSE [ledger |-> update_hash(appended), raised |-> None]

\* mutant of add_event: the chronological check is left out
add_event_unchecked(self, event) ==
  [ledger |-> update_hash([self EXCEPT !.events = Append(@, event)]),
   raised |-> None]

\* CostLedger.add_event: the ledger afterwards and the error raised (or None)
add_event(self, event) ==
  IF Len(self.events) > 0
       /\ datetime_lt(event.timestamp, self.events[Len(self.events)].timestamp)
  THEN [ledger |-> self, raised |-> Some("OrderingViolation")]
  ELSE [ledger |-> update_hash([self EXCEPT !.events = Append(@, event)]),
        raised |-> None]

\* CostLedger.get_ledger_hash
get_ledger_hash(self) ==
  IF Len(self.hashes) = 0
  THEN sha256(json_dumps(<<>>))
  ELSE self.hashes[Len(self.hashes)]

\* mutant of verify_integrity: any hash the ledger ever had is accepted
verify_integrity_any_past_hash(self, expected_hash) ==
  \/ get_ledger_hash(self) = expected_hash
  \/ \E i \in 1..Len(self.hashes) : self.hashes[i] = expected_hash
  \/ expected_hash = sha256(json_dumps(<<>>))

\* CostLedger.verify_integrity
verify_integrity(self, expected_hash) ==
  get_ledger_hash(self) = expected_hash

\* CostLedger.get_total_cost
RECURSIVE sum_total_cost(_)
sum_total_cost(events) ==
  IF events = <<>> THEN 0
  ELSE events[1].total_cost + sum_total_cost(Tail(events))

get_total_cost(self) == sum_total_cost(self.events)

\* CostLedger.get_events_by_execution
get_events_by_execution(self, execution_id) ==
  SelectSeq(self.events, LAMBDA e : e.execution_id = execution_id)

\* CostLedger.get_events: the events in the order they are yielded
get_events(self) == self.events

\* CostLedger.get_events_by_component
get_events_by_component(self, component) ==
  SelectSeq(self.events, LAMBDA e : e.component = component)

\* mutant of replay_cost: the events are not filtered by execution
replay_cost_unfiltered(self, execution_id) == sum_total_cost(self.events)

\* CostLedger.replay_cost
replay_cost(self, execution_id) ==
  sum_total_cost(get_events_by_execution(self, execution_id))

\* ------------------------------------------------------------- ReplayEngine
\* the reconciliation tolerance 1e-6, taken as one unit of the cost grid
COST_TOLERANCE == 1

Abs(x) == IF x < 0 THEN -x ELSE x

\* the tiered sample model of create_sample_pricing_models, boundary at 2
SamplePricing ==
  [tiers |-> <<[min_quantity |-> 0, max_quantity |-> Some(2), unit_cost |-> 2],
               [min_quantity |-> 2, max_quantity |-> None, unit_cost |-> 1]>>,
   fixed_fee |-> None]

\* the fixed-fee sample model of create_sample_pricing_models: no tiers
RequestPricing == [tiers |-> <<>>, fixed_fee |-> Some(3)]

\* a single unbounded tier at the given rate
FlatPricing(rate) ==
  [tiers |-> <<[min_quantity |-> 0, max_quantity |-> None, unit_cost |-> rate]>>,
   fixed_fee |-> None]

\* the catalog of create_sample_pricing_models
SampleCatalog ==
  [v \in {"model:v1", "external_api:v1"} |->
     IF v = "model:v1" THEN SamplePricing ELSE RequestPricing]

\* the catalogs an engine is constructed with, or that are passed as
\* current_pricing: the sample one, an empty one, and two others
Catalogs ==
  {SampleCatalog,
   [v \in {} |-> SamplePricing],
   [v \in {"model:v1"} |-> FlatPricing(1)],
   [v \in {"model:v1", "external_api:v1"} |->
      IF v = "model:v1" THEN SamplePricing ELSE FlatPricing(2)]}

PricingVersions == {"model:v1", "external_api:v1"}

\* mutant of replay_events: the recorded costs are summed, not the recomputed
RECURSIVE replay_events_recorded_total(_, _, _)
replay_events_recorded_total(catalog, events, total_cost) ==
  IF events = <<>> THEN Return(total_cost)
  ELSE LET event == Head(events)
       IN IF event.pricing_version \notin DOMAIN catalog
          THEN Raise("UnknownPricingVersion")
          ELSE LET calculated == calculate_cost(catalog[event.pricing_version],
                                                event.quantity)
               IN IF calculated.raised # None
                  THEN calculated
                  ELSE IF Abs(calculated.cost[1] - event.total_cost) > COST_TOLERANCE
                  THEN Raise("CostMismatch")
                  ELSE replay_events_recorded_total(catalog, Tail(events),
                                                    total_cost + event.total_cost)

\* the body of the loop of replay_execution, over the remaining events
RECURSIVE replay_events(_, _, _)
replay_events(catalog, events, total_cost) ==
  IF events = <<>> THEN Return(total_cost)
  ELSE LET event == Head(events)
       IN IF event.pricing_version \notin DOMAIN catalog
          THEN Raise("UnknownPricingVersion")
          ELSE LET calculated == calculate_cost(catalog[event.pricing_version],
                                                event.quantity)
               IN IF calculated.raised # None
                  THEN calculated
                  ELSE IF Abs(calculated.cost[1] - event.total_cost) > COST_TOLERANCE
                  THEN Raise("CostMismatch")
                  ELSE replay_events(catalog, Tail(events),
                                     total_cost + calculated.cost[1])

\* mutant of replay_execution: an execution without events is an error
replay_execution_needs_events(self, execution_id, ledger) ==
  IF get_events_by_execution(ledger, execution_id) = <<>>
  THEN Raise("UnknownExecution")
  ELSE replay_events(self, get_events_by_execution(ledger, execution_id), 0)

\* ReplayEngine.replay_execution: the error raised or the total returned
replay_execution(self, execution_id, ledger) ==
  replay_events(self, get_events_by_execution(ledger, execution_id), 0)

\* mutant of compare_replay_with_original: a delta equal to the tolerance
\* still counts as a match
compare_replay_with_original_inclusive(self, execution_id, original_ledger, current_pricing) ==
  LET replayed == replay_execution(self, execution_id, original_ledger)
  IN IF replayed.raised # None
     THEN [execution_id |-> execution_id, error |-> replayed.raised[1],
           status |-> "error"]
     ELSE LET replayed_cost == replayed.cost[1]
              original_events == get_events_by_execution(original_ledger, execution_id)
              original_cost == sum_total_cost(original_events)
          IN [execution_id |-> execution_id,
              original_cost |-> original_cost,
              replayed_cost |-> replayed_cost,
              delta |-> replayed_cost - original_cost,
              status |-> IF Abs(replayed_cost - original_cost) <= COST_TOLERANCE
                         THEN "match" ELSE "mismatch"]

\* mutant of compare_replay_with_original: the replay uses current_pricing
compare_replay_with_current_pricing(self, execution_id, original_ledger, current_pricing) ==
  LET replayed == replay_execution(current_pricing, execution_id, original_ledger)
  IN IF replayed.raised # None
     THEN [execution_id |-> execution_id, error |-> replayed.raised[1],
           status |-> "error"]
     ELSE LET replayed_cost == replayed.cost[1]
              original_events == get_events_by_execution(original_ledger, execution_id)
              original_cost == sum_total_cost(original_events)
          IN [execution_id |-> execution_id,
              original_cost |-> original_cost,
              replayed_cost |-> replayed_cost,
              delta |-> replayed_cost - original_cost,
              status |-> IF Abs(replayed_cost - original_cost) < COST_TOLERANCE
                         THEN "match" ELSE "mismatch"]

\* ReplayEngine.compare_replay_with_original: the report returned
compare_replay_with_original(self, execution_id, original_ledger, current_pricing) ==
  LET replayed == replay_execution(self, execution_id, original_ledger)
  IN IF replayed.raised # None
     THEN [execution_id |-> execution_id, error |-> replayed.raised[1],
           status |-> "error"]
     ELSE LET replayed_cost == replayed.cost[1]
              original_events == get_events_by_execution(original_ledger, execution_id)
              original_cost == sum_total_cost(original_events)
          IN [execution_id |-> execution_id,
              original_cost |-> original_cost,
              replayed_cost |-> replayed_cost,
              delta |-> replayed_cost - original_cost,
              status |-> IF Abs(replayed_cost - original_cost) < COST_TOLERANCE
                         THEN "match" ELSE "mismatch"]

\* ------------------------------------------------------------------ actions
Init ==
  /\ pricing_models = SampleCatalog
  /\ pricing_model = SamplePricing
  /\ ledgers = [l \in LedgerIds |-> CostLedger_init]
  /\ recorded = None
  /\ lastOp = [op |-> "init"]

\* CostEvent(...): construction succeeds or raises
Construct ==
  \E uc \in UnitCosts, q \in Quantities, tc \in TotalCosts :
    LET args == CostEventArgs([utc |-> 0, off |-> 0], 1, uc, q, tc)
    IN /\ lastOp' = [op |-> "CostEvent", args |-> args,
                     raised |-> CostEvent_post_init(args)]
       /\ UNCHANGED <<pricing_models, pricing_model, ledgers, recorded>>

\* ledger.add_event(CostEvent(...)): only an event whose construction
\* succeeded exists and can be passed
AddEvent(l, bound) ==
  \E uc \in UnitCosts, q \in Quantities, tc \in TotalCosts :
    \E ts \in Timestamps, ex \in ExecutionIds :
      LET event == CostEventArgs(ts, ex, uc, q, tc)
          r == add_event(ledgers[l], event)
      IN /\ Len(ledgers[l].events) < bound
         /\ CostEvent_post_init(event) = None
         /\ ledgers' = [ledgers EXCEPT ![l] = r.ledger]
         /\ lastOp' = [op |-> "add_event", ledger |-> l, event |-> event,
                       raised |-> r.raised]
         /\ UNCHANGED <<pricing_models, pricing_model, recorded>>

Next ==
  \/ Construct
  \/ AddEvent(1, MaxLedgerLen)

Spec == Init /\ [][Next]_vars

\* ---- the pricing calculator alone: any model, any quantity
InitPricing ==
  /\ pricing_models = SampleCatalog
  /\ pricing_model \in PricingModels
  /\ ledgers = [l \in LedgerIds |-> CostLedger_init]
  /\ recorded = None
  /\ lastOp = [op |-> "init"]

\* pricing_model.calculate_cost(quantity)
CalculateCost ==
  \E quantity \in PricedQuantities :
    /\ lastOp' = [op |-> "calculate_cost", quantity |-> quantity,
                  result |-> calculate_cost(pricing_model, quantity)]
    /\ UNCHANGED <<pricing_models, pricing_model, ledgers, recorded>>

NextPricing == CalculateCost

SpecPricing == InitPricing /\ [][NextPricing]_vars

\* ---- a replay engine over a ledger of events of several pricing versions
\* ReplayEngine(pricing_models) and CostLedger()
InitReplay ==
  /\ pricing_models \in Catalogs
  /\ pricing_model = SamplePricing
  /\ ledgers = [l \in LedgerIds |-> CostLedger_init]
  /\ recorded = None
  /\ lastOp = [op |-> "init"]

\* the two instants at which replayed events are stamped
ReplayTimestamps == {ts \in Timestamps : ts.off = 0 /\ ts.utc < 2}

\* event = CostEvent(..., pricing_version=v); ledger.add_event(event)
AddVersionedEvent(l, bound) ==
  \E ts \in ReplayTimestamps, ex \in ExecutionIds, uc \in UnitCosts,
     q \in Quantities, tc \in TotalCosts, v \in PricingVersions :
    LET event == [CostEventArgs(ts, ex, uc, q, tc) EXCEPT !.pricing_version = v]
        r == add_event(ledgers[l], event)
    IN /\ Len(ledgers[l].events) < bound
       /\ CostEvent_post_init(event) = None
       /\ ledgers' = [ledgers EXCEPT ![l] = r.ledger]
       /\ lastOp' = [op |-> "add_event", ledger |-> l, event |-> event,
                     raised |-> r.raised]
       /\ UNCHANGED <<pricing_models, pricing_model, recorded>>

\* replay_engine.replay_execution(execution_id, ledger)
ReplayExecution ==
  \E execution_id \in ExecutionIds :
    /\ lastOp' = [op |-> "replay_execution", execution_id |-> execution_id,
                  result |-> replay_execution(pricing_models, execution_id,
                                              ledgers[1])]
    /\ UNCHANGED <<pricing_models, pricing_model, ledgers, recorded>>

\* replay_engine.compare_replay_with_original(execution_id, ledger, current_pricing)
CompareReplay ==
  \E execution_id \in ExecutionIds, current_pricing \in Catalogs :
    /\ lastOp' = [op |-> "compare_replay_with_original",
                  execution_id |-> execution_id,
                  current_pricing |-> current_pricing,
                  report |-> compare_replay_with_original(
                               pricing_models, execution_id, ledgers[1],
                               current_pricing)]
    /\ UNCHANGED <<pricing_models, pricing_model, ledgers, recorded>>

NextReplay ==
  \/ AddVersionedEvent(1, MaxAuditLen)
  \/ ReplayExecution
  \/ CompareReplay

SpecReplay == InitReplay /\ [][NextReplay]_vars

\* ---- every operation of the ledger and of the engine, on one ledger
\* list(ledger.get_events())
GetEvents ==
  /\ lastOp' = [op |-> "get_events", result |-> get_events(ledgers[1])]
  /\ UNCHANGED <<pricing_models, pricing_model, ledgers, recorded>>

\* ledger.get_events_by_execution(execution_id)
GetEventsByExecution ==
  \E execution_id \in ExecutionIds :
    /\ lastOp' = [op |-> "get_events_by_execution",
                  execution_id |-> execution_id,
                  result |-> get_events_by_execution(ledgers[1], execution_id)]
    /\ UNCHANGED <<pricing_models, pricing_model, ledgers, recorded>>

\* ledger.get_events_by_component(component)
GetEventsByComponent ==
  \E component \in {"model", "tool"} :
    /\ lastOp' = [op |-> "get_events_by_component", component |-> component,
                  result |-> get_events_by_component(ledgers[1], component)]
    /\ UNCHANGED <<pricing_models, pricing_model, ledgers, recorded>>

\* ledger.get_total_cost()
GetTotalCost ==
  /\ lastOp' = [op |-> "get_total_cost", result |-> get_total_cost(ledgers[1])]
  /\ UNCHANGED <<pricing_models, pricing_model, ledgers, recorded>>

\* ledger.get_ledger_hash(), the result not kept
GetLedgerHash ==
  /\ lastOp' = [op |-> "get_ledger_hash", ledger |-> 1,
                result |-> get_ledger_hash(ledgers[1])]
  /\ UNCHANGED <<pricing_models, pricing_model, ledgers, recorded>>

\* ledger.replay_cost(execution_id)
ReplayCost ==
  \E execution_id \in ExecutionIds :
    /\ lastOp' = [op |-> "replay_cost", execution_id |-> execution_id,
                  result |-> replay_cost(ledgers[1], execution_id)]
    /\ UNCHANGED <<pricing_models, pricing_model, ledgers, recorded>>

\* ---- two separately constructed ledgers fed the same event data
\* ledger 2 receives, in order, events constructed anew from the field
\* values of ledger 1's events
MirrorEvent ==
  LET k == Len(ledgers[2].events) + 1
  IN /\ k <= Len(ledgers[1].events)
     /\ LET src == ledgers[1].events[k]
            event == CostEventArgs(src.timestamp, src.execution_id,
                                   src.unit_cost, src.quantity, src.total_cost)
            r == add_event(ledgers[2], event)
        IN /\ CostEvent_post_init(event) = None
           /\ ledgers' = [ledgers EXCEPT ![2] = r.ledger]
           /\ lastOp' = [op |-> "add_event", ledger |-> 2, event |-> event,
                         raised |-> r.raised]
     /\ UNCHANGED <<pricing_models, pricing_model, recorded>>

NextTwin ==
  \/ AddEvent(1, MaxAuditLen)
  \/ MirrorEvent

SpecTwin == Init /\ [][NextTwin]_vars

\* ---- a caller that keeps hashes and verifies them later
\* h = ledger.get_ledger_hash(), kept by the caller
RecordHash ==
  /\ recorded' = Some([hash |-> get_ledger_hash(ledgers[1]),
                       events |-> ledgers[1].events])
  /\ lastOp' = [op |-> "get_ledger_hash", ledger |-> 1,
                result |-> get_ledger_hash(ledgers[1])]
  /\ UNCHANGED <<pricing_models, pricing_model, ledgers>>

\* the hashes a caller can hold: the empty-ledger hash, the recorded one and
\* every hash the ledger has had
KnownHashes ==
  {sha256(json_dumps(<<>>))}
    \cup {recorded[i].hash : i \in 1..Len(recorded)}
    \cup {ledgers[1].hashes[i] : i \in 1..Len(ledgers[1].hashes)}

\* ledger.verify_integrity(h)
VerifyIntegrity ==
  \E h \in KnownHashes :
    /\ lastOp' = [op |-> "verify_integrity", ledger |-> 1, expected_hash |-> h,
                  result |-> verify_integrity(ledgers[1], h)]
    /\ UNCHANGED <<pricing_models, pricing_model, ledgers, recorded>>

NextIntegrity ==
  \/ AddEvent(1, MaxAuditLen)
  \/ RecordHash
  \/ VerifyIntegrity

SpecIntegrity == Init /\ [][NextIntegrity]_vars

\* ---- every operation of the ledger and of the engine, interleaved
NextReads ==
  \/ AddEvent(1, MaxAuditLen)
  \/ GetEvents
  \/ GetEventsByExecution
  \/ GetEventsByComponent
  \/ GetTotalCost
  \/ GetLedgerHash
  \/ VerifyIntegrity
  \/ ReplayCost
  \/ ReplayExecution
  \/ CompareReplay

SpecReads == Init /\ [][NextReads]_vars

\* ---- the same caller, with the event list also changed behind the
\* ledger's back.  _events is a plain list attribute: code holding the
\* ledger can assign to, or delete from, ledger._events, and can alter an
\* entry in place (object.__setattr__, or the metadata dict it still
\* holds).  None of these runs _update_hash.  The model makes one such
\* change in a run, after a hash of the current ledger was recorded.
Untouched ==
  /\ recorded # None
  /\ recorded[1].events = ledgers[1].events
  /\ Len(ledgers[1].hashes) = Len(ledgers[1].events)
  /\ \A i \in 1..Len(ledgers[1].events) :
       ledgers[1].hashes[i] =
         sha256(json_dumps([j \in 1..i |-> event_to_dict(ledgers[1].events[j])]))

AlterEntry ==
  \E i \in 1..Len(ledgers[1].events) :
    /\ Untouched
    /\ ledgers' = [ledgers EXCEPT ![1].events[i].metadata = Some("edited")]
    /\ lastOp' = [op |-> "alter", index |-> i]
    /\ UNCHANGED <<pricing_models, pricing_model, recorded>>

RemoveEntry ==
  \E i \in 1..Len(ledgers[1].events) :
    /\ Untouched
    /\ ledgers' = [ledgers EXCEPT ![1].events =
                     SubSeq(@, 1, i - 1) \o SubSeq(@, i + 1, Len(@))]
    /\ lastOp' = [op |-> "remove", index |-> i]
    /\ UNCHANGED <<pricing_models, pricing_model, recorded>>

SubstituteEntry ==
  \E i \in 1..Len(ledgers[1].events), ex \in ExecutionIds :
    LET old == ledgers[1].events[i]
        event == CostEventArgs(old.timestamp, ex, old.unit_cost, old.quantity,
                               old.total_cost)
    IN /\ Untouched
       /\ event # old
       /\ ledgers' = [ledgers EXCEPT ![1].events[i] = event]
       /\ lastOp' = [op |-> "substitute", index |-> i]
       /\ UNCHANGED <<pricing_models, pricing_model, recorded>>

NextTamper ==
  \/ AddEvent(1, MaxAuditLen)
  \/ RecordHash
  \/ VerifyIntegrity
  \/ AlterEntry
  \/ RemoveEntry
  \/ SubstituteEntry

SpecTamper == Init /\ [][NextTamper]_vars

\* ------------------------------------------------------------------ claims
Last(s) == s[Len(s)]

\* C1: add_event raises the ordering violation exactly when the ledger is
\* non-empty and the event's timestamp is strictly earlier than that of the
\* last appended event; otherwise (equal or later timestamp, or an empty
\* ledger) the event is accepted and becomes the last entry.
C1_OrderingViolationExactlyWhenEarlier ==
  [][lastOp'.op = "add_event" =>
       LET before == ledgers[lastOp'.ledger]
           after == ledgers'[lastOp'.ledger]
           event == lastOp'.event
           earlier == /\ Len(before.events) > 0
                      /\ event.timestamp.utc < Last(before.events).timestamp.utc
       IN /\ (lastOp'.raised = Some("OrderingViolation")) <=> earlier
          /\ (lastOp'.raised = None) <=> ~earlier
          /\ ~earlier => after.events = Append(before.events, event)]_vars

\* C1 witness: an event with the same instant as the last one was accepted.
C1_Witness ==
  /\ lastOp.op = "add_event"
  /\ lastOp.raised = None
  /\ Len(ledgers[1].events) >= 2
  /\ ledgers[1].events[Len(ledgers[1].events)].timestamp.utc
       = ledgers[1].events[Len(ledgers[1].events) - 1].timestamp.utc

\* C2: a rejected add_event leaves the ledger exactly as it was: events,
\* hashes, get_ledger_hash(), get_total_cost() and every replay_cost(id) are
\* unchanged, and an in-order append is still accepted afterwards.
C2_RejectedAppendChangesNothing ==
  [][(lastOp'.op = "add_event" /\ lastOp'.raised # None) =>
       LET before == ledgers[lastOp'.ledger]
           after == ledgers'[lastOp'.ledger]
       IN /\ after.events = before.events
          /\ after.hashes = before.hashes
          /\ Len(after.hashes) = Len(after.events)
          /\ get_ledger_hash(after) = get_ledger_hash(before)
          /\ get_total_cost(after) = get_total_cost(before)
          /\ \A ex \in ExecutionIds : replay_cost(after, ex) = replay_cost(before, ex)
          /\ \A ts \in Timestamps :
               ts.utc >= Last(after.events).timestamp.utc =>
                 LET r == add_event(after, CostEventArgs(ts, 1, 1, 3, 3))
                 IN /\ r.raised = None
                    /\ r.ledger.events = Append(before.events, CostEventArgs(ts, 1, 1, 3, 3))]_vars

\* C2 witness: an append was rejected on a ledger holding two events.
C2_Witness ==
  /\ lastOp.op = "add_event"
  /\ lastOp.raised = Some("OrderingViolation")
  /\ Len(ledgers[1].events) = 2

Prefix(s, k) == SubSeq(s, 1, k)

\* C3: the ledger hash is a function of the event sequence only: an empty
\* ledger has one fixed hash, every successful add_event changes
\* get_ledger_hash(), and two separately constructed ledgers that received
\* the same event data in the same order hold the same hash sequence after
\* every append.  (Checked under SpecTwin.)
C3_HashDeterminedByEventSequence ==
  /\ [](/\ \A l \in LedgerIds :
             ledgers[l].events = <<>> =>
               get_ledger_hash(ledgers[l]) = <<"sha256", <<>>>>
        /\ \A k \in 0..Len(ledgers[2].events) :
             Prefix(ledgers[1].events, k) = Prefix(ledgers[2].events, k) =>
               /\ Len(ledgers[1].hashes) >= k
               /\ Len(ledgers[2].hashes) >= k
               /\ Prefix(ledgers[1].hashes, k) = Prefix(ledgers[2].hashes, k))
  /\ [][\A l \in LedgerIds :
          ledgers'[l].events # ledgers[l].events =>
            get_ledger_hash(ledgers'[l]) # get_ledger_hash(ledgers[l])]_vars

\* C3 witness: the second ledger has received copies of both events of the
\* first, and the two hold the same two distinct hashes.
C3_Witness ==
  /\ Len(ledgers[1].events) = 2
  /\ ledgers[2].events = ledgers[1].events
  /\ ledgers[2].hashes = ledgers[1].hashes
  /\ Len(ledgers[2].hashes) = 2
  /\ ledgers[1].hashes[1] # ledgers[1].hashes[2]
  /\ lastOp.op = "add_event" /\ lastOp.ledger = 2 /\ lastOp.raised = None

\* C4: once a hash h was taken from get_ledger_hash(), any later alteration,
\* removal or substitution of an entry of the event list, made by whatever
\* means, makes verify_integrity(h) false.  (Checked under SpecTamper.)
C4_TamperingDetected ==
  (/\ recorded # None
   /\ \E i \in 1..Len(recorded[1].events) :
        \/ i > Len(ledgers[1].events)
        \/ ledgers[1].events[i] # recorded[1].events[i])
    => ~verify_integrity(ledgers[1], recorded[1].hash)

\* C5: verify_integrity(h) is true iff h is the current get_ledger_hash();
\* a hash recorded before a successful add_event does not verify after it.
\* (Checked under SpecIntegrity.)
C5_VerifyIffCurrentHash ==
  /\ [](/\ lastOp.op = "verify_integrity" =>
             (lastOp.result <=>
                lastOp.expected_hash = get_ledger_hash(ledgers[lastOp.ledger]))
        /\ (recorded # None /\ recorded[1].events # ledgers[1].events) =>
             ~verify_integrity(ledgers[1], recorded[1].hash)
        /\ \A h \in KnownHashes :
             verify_integrity(ledgers[1], h) <=>
               (h = IF ledgers[1].hashes = <<>> THEN <<"sha256", <<>>>>
                    ELSE Last(ledgers[1].hashes)))
  /\ [][(lastOp'.op = "add_event" /\ lastOp'.raised = None) =>
          /\ ~verify_integrity(ledgers'[1], get_ledger_hash(ledgers[1]))
          /\ verify_integrity(ledgers'[1], get_ledger_hash(ledgers'[1]))]_vars

\* C5 witness: the recorded hash was verified after one more event had been
\* appended, and the answer was false.
C5_Witness ==
  /\ recorded # None
  /\ Len(ledgers[1].events) = Len(recorded[1].events) + 1
  /\ Len(recorded[1].events) = 1
  /\ lastOp.op = "verify_integrity"
  /\ lastOp.expected_hash = recorded[1].hash
  /\ lastOp.result = FALSE

\* ---- pricing claims (checked under SpecPricing)
\* the unit cells [x, x+1) of [0, quantity) that lie in the tier's range
CellsInTier(tier, quantity) ==
  {x \in 0..(quantity - 1) :
     /\ tier.min_quantity <= x
     /\ (tier.max_quantity = None \/ x < tier.max_quantity[1])}

\* the length of the part of [0, quantity) that no tier covers
Uncovered(tiers, quantity) ==
  Cardinality({x \in 0..(quantity - 1) :
                 \A i \in 1..Len(tiers) : x \notin CellsInTier(tiers[i], quantity)})

LowestMin(tiers) ==
  CHOOSE m \in {tiers[i].min_quantity : i \in 1..Len(tiers)} :
    \A i \in 1..Len(tiers) : m <= tiers[i].min_quantity

\* contiguous from 0 with an unbounded last tier
Contiguous(tiers) ==
  /\ tiers # <<>>
  /\ tiers[1].min_quantity = 0
  /\ \A i \in 1..(Len(tiers) - 1) :
       tiers[i].max_quantity = Some(tiers[i + 1].min_quantity)
  /\ tiers[Len(tiers)].max_quantity = None

RECURSIVE MarginalSum(_, _)
MarginalSum(tiers, quantity) ==
  IF tiers = <<>> THEN 0
  ELSE Head(tiers).unit_cost * Cardinality(CellsInTier(Head(tiers), quantity))
         + MarginalSum(Tail(tiers), quantity)

FeeOrZero(self) == IF self.fixed_fee = None THEN 0 ELSE self.fixed_fee[1]

\* C7: for tiers that, sorted by min_quantity, are contiguous from 0 with an
\* unbounded last tier, and q >= 0, calculate_cost(q) is the fixed fee (or
\* 0) plus the sum over tiers of unit_cost times the length of
\* [min_quantity, max_quantity) within [0, q).  A single unbounded tier at
\* rate c without fee gives c * q; the sample tiers [0,2)@2, [2,inf)@1 (the
\* spec's [0,1000)@0.01, [1000,inf)@0.005 in units of 500 and 0.005) give
\* 2, 4, 5 for q = 1, 2, 3 (5.0, 10.0, 12.5 in units of 2.5).
C7_ProgressiveMarginalPricing ==
  (lastOp.op = "calculate_cost" /\ lastOp.quantity >= 0
     /\ Contiguous(sorted_tiers(pricing_model.tiers))) =>
    /\ lastOp.result =
         Return(FeeOrZero(pricing_model)
                  + MarginalSum(pricing_model.tiers, lastOp.quantity))
    /\ (Len(pricing_model.tiers) = 1 /\ pricing_model.fixed_fee = None) =>
         lastOp.result.cost = Some(pricing_model.tiers[1].unit_cost * lastOp.quantity)
    /\ pricing_model = SamplePricing =>
         /\ lastOp.quantity = 1 => lastOp.result.cost = Some(2)
         /\ lastOp.quantity = 2 => lastOp.result.cost = Some(4)
         /\ lastOp.quantity = 3 => lastOp.result.cost = Some(5)

\* C7 witness: the sample tiers, given in reverse order, priced across the
\* tier boundary.
C7_Witness ==
  /\ lastOp.op = "calculate_cost"
  /\ lastOp.quantity = 3
  /\ pricing_model.tiers = <<SamplePricing.tiers[2], SamplePricing.tiers[1]>>
  /\ pricing_model.fixed_fee = None
  /\ lastOp.result = Return(5)

\* C8 as claimed: with at least one tier and q >= 0, a cost is returned iff
\* every part of [0, q) is covered by some tier, and otherwise the call
\* fails with UnsupportedQuantity.
C8_Original ==
  (lastOp.op = "calculate_cost" /\ lastOp.quantity >= 0
     /\ pricing_model.tiers # <<>>) =>
    /\ (lastOp.result.raised = None) <=>
         (Uncovered(pricing_model.tiers, lastOp.quantity) = 0)
    /\ lastOp.result.raised \in {None, Some("UnsupportedQuantity")}

\* C8 amended: with at least one tier and q >= 0, a cost is returned iff q
\* is not below the lowest min_quantity and the part of [0, q) that no tier
\* covers is no longer than the tolerance; otherwise the call fails with
\* UnsupportedQuantity and returns no cost.
C8_CostIffCoveredWithinTolerance ==
  (lastOp.op = "calculate_cost" /\ lastOp.quantity >= 0
     /\ pricing_model.tiers # <<>>) =>
    /\ (lastOp.result.raised = None) <=>
         /\ lastOp.quantity >= LowestMin(pricing_model.tiers)
         /\ Uncovered(pricing_model.tiers, lastOp.quantity) <= EPSILON
    /\ lastOp.result.raised \in {None, Some("UnsupportedQuantity")}
    /\ (lastOp.result.raised = None) <=> (lastOp.result.cost # None)

\* C8 witness: two tiers with a gap wider than the tolerance between them,
\* and a quantity beyond the gap, refused.
C8_Witness ==
  /\ lastOp.op = "calculate_cost"
  /\ Len(pricing_model.tiers) = 2
  /\ lastOp.quantity >= LowestMin(pricing_model.tiers)
  /\ LowestMin(pricing_model.tiers) = 0
  /\ Uncovered(pricing_model.tiers, lastOp.quantity) > EPSILON
  /\ Uncovered(pricing_model.tiers, lastOp.quantity) < lastOp.quantity
  /\ lastOp.result = Raise("UnsupportedQuantity")

C10_NegativeQuantityInvalid ==
  (lastOp.op = "calculate_cost" /\ lastOp.quantity < 0) =>
    lastOp.result = Raise("InvalidQuantity")

\* C10 witness: a negative quantity priced by a model without tiers.
C10_Witness ==
  /\ lastOp.op = "calculate_cost"
  /\ lastOp.quantity < 0
  /\ pricing_model.tiers = <<>>
  /\ pricing_model.fixed_fee # None
  /\ lastOp.result.raised = Some("InvalidQuantity")

\* C11 (flat-rate pricing): for a model with an empty tier list and a
\* fixed fee f, calculate_cost(q) returns f for every quantity q >= 0.
C11_FlatRateReturnsFee ==
  (/\ lastOp.op = "calculate_cost"
   /\ pricing_model.tiers = <<>>
   /\ pricing_model.fixed_fee # None
   /\ lastOp.quantity >= 0) =>
    lastOp.result = Return(pricing_model.fixed_fee[1])

\* the rearrangements of a tier list
Perms(n) ==
  {p \in [1..n -> 1..n] : \A i, j \in 1..n : i # j => p[i] # p[j]}

Permute(tiers, p) == [i \in 1..Len(tiers) |-> tiers[p[i]]]

\* a rearrangement that leaves tiers of equal min_quantity in their order
KeepsTies(tiers, p) ==
  \A i, j \in 1..Len(tiers) :
    (i < j /\ tiers[p[i]].min_quantity = tiers[p[j]].min_quantity) => p[i] < p[j]

\* C18 as claimed: calculate_cost gives the same outcome (the same cost or
\* the same error) for every permutation of the tier list, tiers that share
\* a min_quantity or overlap included.
C18_Original ==
  lastOp.op = "calculate_cost" =>
    \A p \in Perms(Len(pricing_model.tiers)) :
      calculate_cost([pricing_model EXCEPT !.tiers = Permute(pricing_model.tiers, p)],
                     lastOp.quantity) = lastOp.result

\* C18 amended: calculate_cost gives the same outcome for every permutation
\* of the tier list that keeps tiers of equal min_quantity in their relative
\* order; so for every permutation when the min_quantity values are pairwise
\* distinct, overlapping tiers included.
C18_PermutationInvariantUpToTies ==
  lastOp.op = "calculate_cost" =>
    \A p \in Perms(Len(pricing_model.tiers)) :
      KeepsTies(pricing_model.tiers, p) =>
        calculate_cost([pricing_model EXCEPT !.tiers = Permute(pricing_model.tiers, p)],
                       lastOp.quantity) = lastOp.result

\* C18 witness: two overlapping tiers given in descending order of
\* min_quantity, priced to a cost.
C18_Witness ==
  /\ lastOp.op = "calculate_cost"
  /\ Len(pricing_model.tiers) = 2
  /\ pricing_model.tiers[1].min_quantity = 1
  /\ pricing_model.tiers[2].min_quantity = 0
  /\ pricing_model.tiers[2].max_quantity = Some(3)
  /\ lastOp.quantity = 4
  /\ lastOp.result.cost # None

\* ---- ledger invariants (checked under Spec)
\* the digest of an event sequence, as _update_hash computes it
DigestOf(events) ==
  sha256(json_dumps([i \in 1..Len(events) |-> event_to_dict(events[i])]))

\* C15: in every state reached by add_event calls, successful or failed,
\* a ledger holds as many hashes as events, the i-th hash is the digest of
\* the first i events, and get_ledger_hash() is the digest of the complete
\* current event sequence.
C15_OneHashPerEvent ==
  \A l \in LedgerIds :
    /\ Len(ledgers[l].hashes) = Len(ledgers[l].events)
    /\ \A i \in 1..Len(ledgers[l].hashes) :
         ledgers[l].hashes[i] = DigestOf(Prefix(ledgers[l].events, i))
    /\ get_ledger_hash(ledgers[l]) = DigestOf(ledgers[l].events)

\* C15 witness: a ledger of two events and two distinct hashes, just after
\* a rejected add_event.
C15_Witness ==
  /\ lastOp.op = "add_event" /\ lastOp.ledger = 1
  /\ lastOp.raised = Some("OrderingViolation")
  /\ Len(ledgers[1].events) = 2
  /\ Len(ledgers[1].hashes) = 2
  /\ ledgers[1].hashes[1] # ledgers[1].hashes[2]

\* C16: in every reachable state the events of a ledger are in
\* non-decreasing timestamp order, and get_events() yields them in that
\* order.
C16_EventsChronological ==
  \A l \in LedgerIds :
    /\ get_events(ledgers[l]) = ledgers[l].events
    /\ \A i, j \in 1..Len(get_events(ledgers[l])) :
         i < j => ~datetime_lt(get_events(ledgers[l])[j].timestamp,
                               get_events(ledgers[l])[i].timestamp)

\* C16 witness: two events at the same instant, kept in arrival order,
\* after an earlier-stamped event was rejected.
C16_Witness ==
  /\ lastOp.op = "add_event" /\ lastOp.ledger = 1
  /\ lastOp.raised = Some("OrderingViolation")
  /\ Len(ledgers[1].events) = 2
  /\ ledgers[1].events[1].timestamp.utc = ledgers[1].events[2].timestamp.utc
  /\ ledgers[1].events[1].timestamp # ledgers[1].events[2].timestamp
  /\ datetime_lt(lastOp.event.timestamp, ledgers[1].events[2].timestamp)

\* the sum of total_cost over the events at the given positions
RECURSIVE SumAt(_, _)
SumAt(events, positions) ==
  IF positions = {} THEN 0
  ELSE LET i == CHOOSE x \in positions : TRUE
       IN events[i].total_cost + SumAt(events, positions \ {i})

\* the sum of replay_cost over a set of execution ids
RECURSIVE SumReplayCost(_, _)
SumReplayCost(self, ids) ==
  IF ids = {} THEN 0
  ELSE LET id == CHOOSE x \in ids : TRUE
       IN replay_cost(self, id) + SumReplayCost(self, ids \ {id})

\* C17: get_total_cost() is the sum of total_cost over all events;
\* replay_cost(id) is the sum of total_cost over the events of that
\* execution (0 if there are none); and get_total_cost() is the sum of
\* replay_cost over the distinct execution ids in the ledger.
C17_TotalsAreSums ==
  \A l \in LedgerIds :
    LET events == ledgers[l].events
        ids == {events[i].execution_id : i \in 1..Len(events)}
    IN /\ get_total_cost(ledgers[l]) = SumAt(events, 1..Len(events))
       /\ \A id \in ExecutionIds :
            /\ replay_cost(ledgers[l], id) =
                 SumAt(events, {i \in 1..Len(events) : events[i].execution_id = id})
            /\ id \notin ids => replay_cost(ledgers[l], id) = 0
       /\ get_total_cost(ledgers[l]) = SumReplayCost(ledgers[l], ids)

\* C17 witness: events of 6 and 3 for one execution and one of 6 for
\* another: 9 for the first execution, 15 in total.
C17_Witness ==
  /\ lastOp.op = "add_event" /\ lastOp.ledger = 1 /\ lastOp.raised = None
  /\ Len(ledgers[1].events) = 3
  /\ ledgers[1].events[1].total_cost = 6 /\ ledgers[1].events[1].execution_id = 1
  /\ ledgers[1].events[2].total_cost = 3 /\ ledgers[1].events[2].execution_id = 1
  /\ ledgers[1].events[3].total_cost = 6 /\ ledgers[1].events[3].execution_id = 2
  /\ replay_cost(ledgers[1], 1) = 9
  /\ get_total_cost(ledgers[1]) = 15

\* ---- replay claims (checked under SpecReplay)
\* the events of the execution the last call was about
ReplayedEvents == get_events_by_execution(ledgers[1], lastOp.execution_id)

VersionKnown(event) == event.pricing_version \in DOMAIN pricing_models

Recomputed(event) ==
  calculate_cost(pricing_models[event.pricing_version], event.quantity)

\* the recomputed cost exists and differs from the recorded one by more
\* than the tolerance
Mismatched(event) ==
  /\ VersionKnown(event)
  /\ Recomputed(event).cost # None
  /\ Abs(Recomputed(event).cost[1] - event.total_cost) > COST_TOLERANCE

\* why an event cannot be replayed, or None if it can
EventFailure(event) ==
  IF ~VersionKnown(event) THEN Some("UnknownPricingVersion")
  ELSE IF Recomputed(event).raised # None THEN Recomputed(event).raised
  ELSE IF Mismatched(event) THEN Some("CostMismatch")
  ELSE None

\* the sum of the recomputed costs of the events at the given positions
RECURSIVE SumRecomputed(_, _)
SumRecomputed(events, positions) ==
  IF positions = {} THEN 0
  ELSE LET i == CHOOSE x \in positions : TRUE
       IN Recomputed(events[i]).cost[1] + SumRecomputed(events, positions \ {i})

\* C12 as claimed: replay_execution returns a total only if every event of
\* the execution has a known pricing_version and a recomputed cost within
\* the tolerance, the total being the sum of the recomputed costs; if any
\* event has an unknown pricing_version it fails with UnknownPricingVersion,
\* if any event's recomputed cost is off by more than the tolerance it fails
\* with CostMismatch; a failure yields no total.
C12_Original ==
  lastOp.op = "replay_execution" =>
    LET events == ReplayedEvents
        every == 1..Len(events)
    IN /\ lastOp.result.cost # None =>
            /\ \A i \in every : VersionKnown(events[i]) /\ ~Mismatched(events[i])
            /\ lastOp.result.cost[1] = SumRecomputed(events, every)
       /\ (\E i \in every : ~VersionKnown(events[i])) =>
            lastOp.result = Raise("UnknownPricingVersion")
       /\ (\E i \in every : Mismatched(events[i])) =>
            lastOp.result = Raise("CostMismatch")
       /\ lastOp.result.raised # None => lastOp.result.cost = None

\* C12 amended: replay_execution walks the events of the execution in
\* ledger order and is all-or-nothing.  It returns a total exactly when
\* every event has a known pricing_version, a quantity its pricing model
\* can price, and a recomputed cost within the tolerance of the recorded
\* one; the total is the sum of the recomputed costs of those events.
\* Otherwise it fails with the error of the first event, in ledger order,
\* that cannot be replayed (UnknownPricingVersion, the pricing error of
\* calculate_cost, or CostMismatch) and yields no total.
C12_ReplayAllOrNothing ==
  lastOp.op = "replay_execution" =>
    LET events == ReplayedEvents
        every == 1..Len(events)
        failing == {i \in every : EventFailure(events[i]) # None}
    IN IF failing = {}
       THEN lastOp.result = Return(SumRecomputed(events, every))
       ELSE LET first == CHOOSE i \in failing : \A j \in failing : i <= j
            IN /\ lastOp.result.raised = EventFailure(events[first])
               /\ lastOp.result.cost = None

\* C12 witness: two events of the execution replayed to the sum of their
\* recomputed costs, which is not the sum of the recorded ones.
C12_Witness ==
  /\ lastOp.op = "replay_execution"
  /\ Len(ReplayedEvents) = 2
  /\ lastOp.result.cost # None
  /\ lastOp.result.cost[1] # sum_total_cost(ReplayedEvents)

\* C13: compare_replay_with_original never raises, it always returns a
\* report.  The status is "error", with the execution id and the error
\* message, exactly when replay_execution fails; otherwise original_cost is
\* the sum of the recorded total_cost of the execution's events,
\* replayed_cost the result of replay_execution, delta their difference, and
\* status "match" if |delta| is below the tolerance, else "mismatch".
C13_CompareReportsNeverRaises ==
  lastOp.op = "compare_replay_with_original" =>
    LET report == lastOp.report
        replayed == replay_execution(pricing_models, lastOp.execution_id, ledgers[1])
        events == ReplayedEvents
    IN /\ report.execution_id = lastOp.execution_id
       /\ report.status \in {"error", "match", "mismatch"}
       /\ report.status = "error" <=> replayed.raised # None
       /\ IF report.status = "error"
          THEN /\ DOMAIN report = {"execution_id", "error", "status"}
               /\ report.error = replayed.raised[1]
          ELSE /\ DOMAIN report = {"execution_id", "original_cost",
                                   "replayed_cost", "delta", "status"}
               /\ report.original_cost = SumAt(events, 1..Len(events))
               /\ report.replayed_cost = replayed.cost[1]
               /\ report.delta = report.replayed_cost - report.original_cost
               /\ report.status = "match" <=> Abs(report.delta) < COST_TOLERANCE

\* C13 witness: a replay that succeeds, every event being within the
\* tolerance, and is reported as a mismatch because the total is not.
C13_Witness ==
  /\ lastOp.op = "compare_replay_with_original"
  /\ Len(ReplayedEvents) = 2
  /\ lastOp.report.status = "mismatch"
  /\ lastOp.report.delta = -2
  /\ \A i \in 1..2 : EventFailure(ReplayedEvents[i]) = None

\* C19: the report of compare_replay_with_original is determined by the
\* execution id, the ledger and the catalog the engine was constructed
\* with: calls that differ only in current_pricing return the same report.
C19_CurrentPricingIgnored ==
  lastOp.op = "compare_replay_with_original" =>
    \A current_pricing \in Catalogs :
      compare_replay_with_original(pricing_models, lastOp.execution_id,
                                   ledgers[1], current_pricing) = lastOp.report

\* C19 witness: a report of a match although a replay under the
\* current_pricing that was passed would fail.
C19_Witness ==
  /\ lastOp.op = "compare_replay_with_original"
  /\ lastOp.current_pricing # pricing_models
  /\ lastOp.report.status = "match"
  /\ Len(ReplayedEvents) = 2
  /\ replay_execution(lastOp.current_pricing, lastOp.execution_id,
                      ledgers[1]).raised # None

\* C20: for an execution id without events in the ledger, replay_execution
\* returns 0 without failing whatever the catalog, the empty one included,
\* and compare_replay_with_original reports original_cost 0, replayed_cost
\* 0, delta 0 and status "match".
C20_NoEventsReplaysToZero ==
  /\ (lastOp.op = "replay_execution" /\ ReplayedEvents = <<>>) =>
       lastOp.result = Return(0)
  /\ (lastOp.op = "compare_replay_with_original" /\ ReplayedEvents = <<>>) =>
       lastOp.report = [execution_id |-> lastOp.execution_id,
                        original_cost |-> 0, replayed_cost |-> 0,
                        delta |-> 0, status |-> "match"]

\* C20 witness: an engine with an empty catalog compares an execution that
\* has no events, in a ledger holding two events of another execution.
C20_Witness ==
  /\ lastOp.op = "compare_replay_with_original"
  /\ DOMAIN pricing_models = {}
  /\ Len(ledgers[1].events) = 2
  /\ ReplayedEvents = <<>>
  /\ lastOp.report.status = "match"

\* ---- the append-only frame (checked under SpecReads)
IsPrefix(s, t) == Len(s) <= Len(t) /\ SubSeq(t, 1, Len(s)) = s

ReadOperations ==
  {"get_events", "get_events_by_execution", "get_events_by_component",
   "get_total_cost", "get_ledger_hash", "verify_integrity", "replay_cost",
   "replay_execution", "compare_replay_with_original"}

\* C14: across any sequence of operations the event sequence and the hash
\* sequence of an earlier state are prefixes of those of a later state; only
\* a successful add_event changes them, and it lengthens each by exactly
\* one; get_events, get_events_by_execution, get_events_by_component,
\* get_total_cost, get_ledger_hash, verify_integrity, replay_cost,
\* replay_execution and compare_replay_with_original leave both unchanged.
C14_AppendOnlyFrame ==
  [][\A l \in LedgerIds :
       LET successful_add == /\ lastOp'.op = "add_event"
                             /\ lastOp'.ledger = l
                             /\ lastOp'.raised = None
       IN /\ IsPrefix(ledgers[l].events, ledgers'[l].events)
          /\ IsPrefix(ledgers[l].hashes, ledgers'[l].hashes)
          /\ ledgers'[l] # ledgers[l] => successful_add
          /\ successful_add =>
               /\ Len(ledgers'[l].events) = Len(ledgers[l].events) + 1
               /\ Len(ledgers'[l].hashes) = Len(ledgers[l].hashes) + 1
          /\ lastOp'.op \in ReadOperations => ledgers'[l] = ledgers[l]]_vars

\* C14 witness: a ledger of two events and two hashes on which
\* compare_replay_with_original has just been called.
C14_Witness ==
  /\ lastOp.op = "compare_replay_with_original"
  /\ Len(ledgers[1].events) = 2
  /\ Len(ledgers[1].hashes) = 2
  /\ lastOp.report.status = "error"

====
